---- MODULE Spec2Model ----
(***************************************************************************)
(* Model of himura/media-converter.                                        *)
(*                                                                         *)
(*   SpecSel   the Video Keyframe Selector of src/src/movie_keyframe.rs    *)
(*   SpecReq   the media / thumbnail request handlers of src/src/main.rs   *)
(*   SpecKey   path_from_key of src/src/main.rs as a pure function         *)
(*   SpecStats the OnlineStats accumulator of src/src/statistics.rs        *)
(*                                                                         *)
(* Optional values (Option<T>) are sequences of length 0 or 1.  f32 / f64  *)
(* scores are small integers; a decoded image is a record carrying the     *)
(* values the scorer computes from its pixels.                             *)
(***************************************************************************)
EXTENDS Integers, Sequences, FiniteSets, TLC

VARIABLES
    \* ---- Keyframe Selector (movie_keyframe.rs) ----
    max_keyframes,        \* parameter max_keyframes: i32
    threshold_score,      \* parameter threshold_score: f32
    threshold_sharpness,  \* parameter threshold_sharpness: Option<f32>
    pc,                   \* position inside load_image_from_movie_keyframe
    guard,                \* TRUE once the scopeguard around the decoder exists
    best_frame,           \* Option<DynamicImage>
    best_score,           \* f32
    frame_index,          \* i32
    packets,              \* packets taken from ictx.packets() so far
    got,                  \* frames received for the current packet
    decoded,              \* frames received from the decoder so far
    scored,               \* images handed to compute_frame_score, in order
    calls,                \* calls made on the decoder, in order
    result,               \* what the function returned
    \* ---- path_from_key as a function (main.rs) ----
    key,                  \* the key: &str argument, a sequence of characters
    resolved,             \* Option<Result<PathBuf, ApiError>>
    \* ---- OnlineStats (statistics.rs) ----
    stats,                \* the struct: count, mean, m2
    values,               \* the values passed to update, in order
    read,                 \* what the last call of mean / variance / stddev gave
    \* ---- request handlers (main.rs) ----
    rpc,                  \* position inside the handler
    handler,              \* "media" or "thumbnail"
    req_key,              \* the {tail} of the request path
    if_modified_since,    \* Option of the If-Modified-Since header
    file_mtime,           \* Option: None when std::fs::metadata fails
    canonical_path,       \* Option<PathBuf>
    stages,               \* pipeline stages entered, in order
    fs_reads,             \* accesses made to the file system
    lpackets,             \* packets taken from ictx.packets() (video branch)
    img,                  \* the Result of load_image
    response              \* the HTTP outcome

selVars == <<max_keyframes, threshold_score, threshold_sharpness, pc, guard,
             best_frame, best_score, frame_index, packets, got, decoded,
             scored, calls, result>>

keyVars == <<key, resolved>>

statVars == <<stats, values, read>>

reqVars == <<rpc, handler, req_key, if_modified_since, file_mtime,
             canonical_path, stages, fs_reads, lpackets, img, response>>

vars == <<selVars, keyVars, statVars, reqVars>>

\* ------------------------------------------------------------------ bounds
MaxPackets == 2
MaxFramesPerPacket == 2
MaxScore == 1
MaxSharpness == 1
MaxKeyframes == 2

Scores == 0..MaxScore
Sharpnesses == 0..MaxSharpness

\* ------------------------------------------------- Keyframe Selector: data
Some(x) == <<x>>
None == <<>>

\* The return values of load_image_from_movie_keyframe.
Running == [kind |-> "Running", image |-> None, msg |-> ""]
Ok(image) == [kind |-> "Ok", image |-> Some(image), msg |-> ""]
Err(msg) == [kind |-> "Err", image |-> None, msg |-> msg]

\* compute_frame_score: stddev(luma) * mean(saturation) * brightness_penalty.
\* stddev >= 0, 0 <= saturation <= 1 and, mean luma lying in [0, 255],
\* 1/128 <= penalty <= 1 or penalty = 0: the score is never negative.
compute_frame_score(image) == image.score

\* compute_frame_sharpness: the variance of the Laplacian, never negative.
compute_frame_sharpness(image) == image.sharpness[1]

BestScoreFromZero == 1 - 1

\* let mut best_score = -1.0_f32;
InitialBestScore == -1

GuardDismissed(armed, cs) == cs

\* The closure of the scopeguard: decoder.send_eof(), its error only logged.
guard_drop(armed, cs) == IF armed THEN Append(cs, "send_eof") ELSE cs

\* Leaving the function: the value is returned and the locals are dropped.
Return(res, armed, cs) ==
    /\ result' = res
    /\ pc' = "done"
    /\ calls' = guard_drop(armed, cs)

EarlyReturnStrict(image) ==
    /\ compute_frame_score(image) > threshold_score
    /\ IF threshold_sharpness # None
       THEN compute_frame_sharpness(image) > threshold_sharpness[1]
       ELSE TRUE

\* if score >= threshold_score { if let Some(threshold) = threshold_sharpness
\*   { if sharpness >= threshold { return } } else { return } }
EarlyReturn(image) ==
    /\ compute_frame_score(image) >= threshold_score
    /\ IF threshold_sharpness # None
       THEN compute_frame_sharpness(image) >= threshold_sharpness[1]
       ELSE TRUE

UpdateBestAlways(image) ==
    /\ best_score' = compute_frame_score(image)
    /\ best_frame' = Some(image)

\* if score > best_score { best_score = score; best_frame = Some(image); }
UpdateBest(image) ==
    IF compute_frame_score(image) > best_score
    THEN /\ best_score' = compute_frame_score(image)
         /\ best_frame' = Some(image)
    ELSE UNCHANGED <<best_score, best_frame>>

CapReachedLate(n) == n > max_keyframes

\* The sharpness of an image is looked at only under
\* if score >= threshold_score { if let Some(threshold) = threshold_sharpness:
\* an image carries it (Some) when it is computed, None otherwise.
Measured(score) ==
    IF score >= threshold_score /\ threshold_sharpness # None
    THEN {Some(s) : s \in Sharpnesses}
    ELSE {None}

\* if frame_index >= max_keyframes { break; }
CapReached(n) == n >= max_keyframes

\* ------------------------------------- the parts a specification leaves out
\* Each specification runs one part of the program; the variables of the
\* other parts keep the values they have before that part is entered.
SelIdle ==
    /\ max_keyframes = 1
    /\ threshold_score = 0
    /\ threshold_sharpness = None
    /\ pc = "open"
    /\ guard = FALSE
    /\ best_frame = None
    /\ best_score = InitialBestScore
    /\ frame_index = 0
    /\ packets = 0
    /\ got = 0
    /\ decoded = 0
    /\ scored = <<>>
    /\ calls = <<>>
    /\ result = Running

KeyIdle ==
    /\ key = <<>>
    /\ resolved = None

StatsIdle ==
    /\ stats = [count |-> 0, mean |-> <<0, 1>>, m2 |-> <<0, 1>>]  \* new
    /\ values = <<>>
    /\ read = None

ReqIdle ==
    /\ rpc = "key"
    /\ handler = "media"
    /\ req_key = <<>>
    /\ if_modified_since = None
    /\ file_mtime = None
    /\ canonical_path = None
    /\ stages = <<>>
    /\ fs_reads = 0
    /\ lpackets = 0
    /\ img = Running
    /\ response = None

SelOnly == UNCHANGED <<keyVars, statVars, reqVars>>
KeyOnly == UNCHANGED <<selVars, statVars, reqVars>>
StatsOnly == UNCHANGED <<selVars, keyVars, reqVars>>
ReqOnly == UNCHANGED <<selVars, keyVars, statVars>>

\* --------------------------------------------- Keyframe Selector: actions
SelInit ==
    /\ KeyIdle /\ StatsIdle /\ ReqIdle
    /\ max_keyframes \in (0 - 1)..MaxKeyframes
    /\ threshold_score \in 0..(MaxScore + 1)
    /\ threshold_sharpness \in {None} \cup {Some(s) : s \in Sharpnesses}
    /\ pc = "open"
    /\ guard = FALSE
    /\ best_frame = None
    /\ best_score = InitialBestScore
    /\ frame_index = 0
    /\ packets = 0
    /\ got = 0
    /\ decoded = 0
    /\ scored = <<>>
    /\ calls = <<>>
    /\ result = Running

\* input(&path)?, streams().best(Video).context(..)?, Context::from_parameters(..)?
OpenInput ==
    /\ SelOnly
    /\ pc = "open"
    /\ \E outcome \in {"ok", "Failed to open input", "No video stream found",
                       "Failed to build codec context"} :
         IF outcome = "ok"
         THEN /\ pc' = "decoder"
              /\ UNCHANGED <<result, calls>>
         ELSE Return(Err(outcome), guard, calls)
    /\ UNCHANGED <<max_keyframes, threshold_score, threshold_sharpness, guard,
                   best_frame, best_score, frame_index, packets, got, decoded,
                   scored>>

\* context_decoder.decoder().video()? and guard(decoder_bare, ..)
MakeDecoder ==
    /\ SelOnly
    /\ pc = "decoder"
    /\ \E ok \in BOOLEAN :
         IF ok
         THEN /\ guard' = TRUE
              /\ pc' = "scaler"
              /\ UNCHANGED <<result, calls>>
         ELSE /\ guard' = guard
              /\ Return(Err("Failed to open video decoder"), guard, calls)
    /\ UNCHANGED <<max_keyframes, threshold_score, threshold_sharpness,
                   best_frame, best_score, frame_index, packets, got, decoded,
                   scored>>

\* ScalingContext::get(..)?, then the initial values of the locals
MakeScaler ==
    /\ SelOnly
    /\ pc = "scaler"
    /\ \E ok \in BOOLEAN :
         IF ok
         THEN /\ pc' = "packets"
              /\ UNCHANGED <<result, calls>>
         ELSE Return(Err("Failed to build scaler"), guard, calls)
    /\ UNCHANGED <<max_keyframes, threshold_score, threshold_sharpness, guard,
                   best_frame, best_score, frame_index, packets, got, decoded,
                   scored>>

\* for (stream, packet) in ictx.packets() { if stream.index() != .. { continue; }
\*   decoder.send_packet(&packet)?;
NextPacket ==
    /\ SelOnly
    /\ pc = "packets"
    /\ \/ /\ pc' = "finish"                       \* the iterator is exhausted
          /\ UNCHANGED <<packets, got, calls, result>>
       \/ /\ packets < MaxPackets
          /\ packets' = packets + 1
          /\ \E video \in BOOLEAN, sent \in BOOLEAN :
               IF ~video
               THEN /\ pc' = "packets"
                    /\ UNCHANGED <<got, calls, result>>
               ELSE IF sent
               THEN /\ pc' = "receive"
                    /\ got' = 0
                    /\ calls' = Append(calls, "send_packet")
                    /\ UNCHANGED result
               ELSE /\ got' = got
                    /\ Return(Err("send_packet failed"), guard,
                              Append(calls, "send_packet"))
    /\ UNCHANGED <<max_keyframes, threshold_score, threshold_sharpness, guard,
                   best_frame, best_score, frame_index, decoded, scored>>

\* One turn of: while decoder.receive_frame(&mut decoded).is_ok() { .. }
ReceiveFrame ==
    /\ SelOnly
    /\ pc = "receive"
    /\ \/ /\ pc' = "after_packet"                 \* receive_frame is not Ok
          /\ calls' = Append(calls, "receive_frame")
          /\ UNCHANGED <<best_frame, best_score, frame_index, got, decoded,
                         scored, result>>
       \/ /\ got < MaxFramesPerPacket
          /\ got' = got + 1
          /\ decoded' = decoded + 1
          /\ \E is_key \in BOOLEAN, score \in Scores,
                failure \in {"none", "scaler.run failed",
                             "Failed to build ImageBuffer"} :
             \E sharpness \in Measured(score) :
               LET image == [id |-> decoded + 1, score |-> score,
                             sharpness |-> sharpness]
                   cs == Append(calls, "receive_frame")
               IN  IF ~is_key
                   THEN /\ pc' = "receive"
                        /\ calls' = cs
                        /\ UNCHANGED <<best_frame, best_score, frame_index,
                                       scored, result>>
                   ELSE IF failure # "none"
                   THEN /\ Return(Err(failure), guard, cs)
                        /\ UNCHANGED <<best_frame, best_score, frame_index,
                                       scored>>
                   ELSE /\ scored' = Append(scored, image)
                        /\ IF EarlyReturn(image)
                           THEN /\ Return(Ok(image), guard, cs)
                                /\ UNCHANGED <<best_frame, best_score,
                                               frame_index>>
                           ELSE /\ UpdateBest(image)
                                /\ frame_index' = frame_index + 1
                                /\ pc' = IF CapReached(frame_index + 1)
                                         THEN "after_packet" ELSE "receive"
                                /\ calls' = cs
                                /\ UNCHANGED result
    /\ UNCHANGED <<max_keyframes, threshold_score, threshold_sharpness, guard,
                   packets>>

\* if frame_index >= max_keyframes { break; }   (end of the for body)
AfterPacket ==
    /\ SelOnly
    /\ pc = "after_packet"
    /\ pc' = IF CapReached(frame_index) THEN "finish" ELSE "packets"
    /\ UNCHANGED <<max_keyframes, threshold_score, threshold_sharpness, guard,
                   best_frame, best_score, frame_index, packets, got, decoded,
                   scored, calls, result>>

\* best_frame.ok_or_else(|| anyhow!("No suitable frame found"))
Finish ==
    /\ SelOnly
    /\ pc = "finish"
    /\ Return(IF best_frame # None THEN Ok(best_frame[1])
              ELSE Err("No suitable frame found"), guard, calls)
    /\ UNCHANGED <<max_keyframes, threshold_score, threshold_sharpness, guard,
                   best_frame, best_score, frame_index, packets, got, decoded,
                   scored>>

SelNext ==
    \/ OpenInput
    \/ MakeDecoder
    \/ MakeScaler
    \/ NextPacket
    \/ ReceiveFrame
    \/ AfterPacket
    \/ Finish

SpecSel == SelInit /\ [][SelNext]_vars

\* ------------------------------------------ Keyframe Selector: properties
\* The threshold condition, as the specification words it.
MeetsThresholds(f) ==
    /\ f.score >= threshold_score
    /\ \/ threshold_sharpness = None
       \/ f.sharpness # None /\ f.sharpness[1] >= threshold_sharpness[1]

\* The k-th scored keyframe (counting from 1) is the first to meet it.
FirstQualifying(k) ==
    /\ k \in 1..Len(scored)
    /\ MeetsThresholds(scored[k])
    /\ \A j \in 1..(k - 1) : ~MeetsThresholds(scored[j])

SentPackets(cs) == Cardinality({i \in DOMAIN cs : cs[i] = "send_packet"})
SentEofs(cs) == Cardinality({i \in DOMAIN cs : cs[i] = "send_eof"})

NoSuitableFrame == Err("No suitable frame found")

\* Scanning ended with no early return and no propagated error.
ScanExhausted ==
    /\ pc = "done"
    /\ result.kind = "Ok" \/ result = NoSuitableFrame
    /\ \A k \in 1..Len(scored) : ~MeetsThresholds(scored[k])

AtMost(a, b) == IF a >= b THEN a ELSE b

C1_Found ==
    \A k \in 1..Len(scored) :
        (FirstQualifying(k) /\ k <= max_keyframes)
            => /\ pc = "done"
               /\ result = Ok(scored[k])
               /\ Len(scored) = k

C1_Stops ==
    (\E k \in 1..Len(scored) : FirstQualifying(k) /\ k <= max_keyframes)
        => /\ scored' = scored
           /\ SentPackets(calls') = SentPackets(calls)

\* C1: when the k-th scored keyframe is the first to meet the score threshold
\* (and the sharpness threshold, when one is configured) and k is within the
\* first max_keyframes, the Selector returns exactly that frame's image, no
\* further keyframe is scored (k scored in all, counting from 1) and no
\* further packet is sent to the decoder.
C1_EarlyExit == []C1_Found /\ [][C1_Stops]_vars

\* A qualifying keyframe is returned after an earlier one was passed over.
C1_Witness ==
    /\ pc = "done"
    /\ \E k \in 2..Len(scored) :
          FirstQualifying(k) /\ k <= max_keyframes /\ result = Ok(scored[k])

\* C2: when scanning ends with no scored keyframe meeting the threshold
\* condition and without a decode error, the frame returned is one of the
\* scored keyframes and its score is >= the score of every scored keyframe.
C2_Fallback ==
    (ScanExhausted /\ scored # <<>>)
        => /\ result.kind = "Ok"
           /\ \E k \in 1..Len(scored) :
                 /\ result.image = Some(scored[k])
                 /\ \A j \in 1..Len(scored) : scored[j].score <= scored[k].score

\* The fallback picks the better of two scored frames, which is not the last.
C2_Witness ==
    /\ ScanExhausted
    /\ Len(scored) >= 2
    /\ result.kind = "Ok"
    /\ result.image = Some(scored[1])
    /\ scored[2].score < scored[1].score

\* C3: when scanning ends with no early return and no decode error, the
\* Selector fails with "No suitable frame found" exactly when no keyframe was
\* scored, and returns a scored frame otherwise; every computed score lies
\* above the initial best_score.
C3_Exhausted ==
    /\ \A k \in 1..Len(scored) : compute_frame_score(scored[k]) > InitialBestScore
    /\ ScanExhausted
         => /\ (result = NoSuitableFrame) <=> (scored = <<>>)
            /\ scored # <<>>
                 => /\ result.kind = "Ok"
                    /\ \E k \in 1..Len(scored) : result.image = Some(scored[k])

\* Packets were decoded, none gave a keyframe, and the Selector failed.
C3_Witness ==
    /\ ScanExhausted
    /\ result = NoSuitableFrame
    /\ scored = <<>>
    /\ decoded >= 1

\* C4 as claimed, for the caps that are not negative: the number of keyframes
\* scored never exceeds max_keyframes.
C4_CapAsClaimed == max_keyframes >= 0 => Len(scored) <= max_keyframes

C4_Bounded ==
    /\ Len(scored) <= AtMost(max_keyframes, 1)
    /\ frame_index <= AtMost(max_keyframes, 1)

C4_StopsAtCap ==
    frame_index >= AtMost(max_keyframes, 1)
        => /\ scored' = scored
           /\ SentPackets(calls') = SentPackets(calls)

\* C4 (amended): the number of keyframes scored never exceeds
\* max(max_keyframes, 1), and once frame_index has reached that number no
\* further packet is sent to the decoder and no further frame is scored.
C4_Cap == []C4_Bounded /\ [][C4_StopsAtCap]_vars

\* The cap stopped a scan whose stream could have gone on.
C4_Witness ==
    /\ pc = "done"
    /\ max_keyframes >= 2
    /\ frame_index = max_keyframes
    /\ Len(scored) = max_keyframes
    /\ packets < MaxPackets

\* C10: once the decoder exists, send_eof is sent to it exactly once, as the
\* last call made on it, on every way out of the function, and never before;
\* when the decoder was never built nothing is called on it.
C10_Flush ==
    /\ guard /\ pc = "done"
         => SentEofs(calls) = 1 /\ calls[Len(calls)] = "send_eof"
    /\ guard /\ pc # "done" => SentEofs(calls) = 0
    /\ ~guard => calls = <<>>

\* A propagated scaler error still flushes the decoder, after a packet.
C10_Witness ==
    /\ pc = "done"
    /\ result = Err("scaler.run failed")
    /\ SentPackets(calls) >= 2
    /\ calls[Len(calls)] = "send_eof"

\* ------------------------------------------------- strings (main.rs keys)
\* A &str is the sequence of its characters, each a one-character string;
\* NonAscii stands for a character that UTF-8 encodes in two bytes.
Digits == {"0", "1", "2", "3", "4", "5", "6", "7", "8", "9"}
LowerHex == {"a", "b", "c", "d", "e", "f"}
UpperHex == {"A", "B", "C", "D", "E", "F"}
Lower == LowerHex \cup {"g", "h", "i", "j", "k", "l", "m", "n", "o", "p", "q",
                        "r", "s", "t", "u", "v", "w", "x", "y", "z"}
Upper == UpperHex \cup {"G", "H", "I", "J", "K", "L", "M", "N", "O", "P", "Q",
                        "R", "S", "T", "U", "V", "W", "X", "Y", "Z"}
NonAscii == "U+00E9"

\* char::is_ascii_hexdigit and char::is_ascii_alphanumeric
is_ascii_hexdigit(c) == c \in Digits \cup LowerHex \cup UpperHex
is_ascii_alphanumeric(c) == c \in Digits \cup Lower \cup Upper

\* str::len: the length in bytes
RECURSIVE str_len(_)
str_len(s) ==
    IF s = <<>> THEN 0
    ELSE (IF Head(s) = NonAscii THEN 2 ELSE 1) + str_len(Tail(s))

\* The index of the first c in s, 0 when there is none.
FirstIndex(s, c) ==
    IF \E i \in DOMAIN s : s[i] = c
    THEN CHOOSE i \in DOMAIN s : s[i] = c /\ \A j \in 1..(i - 1) : s[j] # c
    ELSE 0

\* str::split_once
split_once(s, c) ==
    LET i == FirstIndex(s, c)
    IN  IF i = 0 THEN None
        ELSE Some(<<SubSeq(s, 1, i - 1), SubSeq(s, i + 1, Len(s))>>)

\* PathBuf::push: an absolute argument replaces the path, any other is
\* appended after a separator.
push(path, p) ==
    IF p # <<>> /\ p[1] = "/" THEN p
    ELSE IF path = <<>> \/ path[Len(path)] = "/" THEN path \o p
    ELSE path \o <<"/">> \o p

\* if hkey.len() != 32
HashLen == 32

InvalidKey == [ok |-> FALSE, path |-> <<>>, err |-> "InvalidKey"]

PathFromKeyNoExtCheck(base_path, k) ==
    LET parts == split_once(k, ".")
        hkey == IF parts = None THEN k ELSE parts[1][1]
    IN  IF str_len(hkey) # HashLen THEN InvalidKey
        ELSE IF ~(\A i \in DOMAIN hkey : is_ascii_hexdigit(hkey[i]))
        THEN InvalidKey
        ELSE [ok |-> TRUE,
              path |-> push(push(base_path, SubSeq(hkey, 1, 2)), k),
              err |-> ""]

\* fn path_from_key(base_path: &Path, key: &str) -> Result<PathBuf, ApiError>
path_from_key(base_path, k) ==
    LET parts == split_once(k, ".")
        hkey == IF parts = None THEN k ELSE parts[1][1]
        ext == IF parts = None THEN <<>> ELSE parts[1][2]
    IN  IF str_len(hkey) # HashLen THEN InvalidKey
        ELSE IF ~(\A i \in DOMAIN ext : is_ascii_alphanumeric(ext[i]))
        THEN InvalidKey
        ELSE IF ~(\A i \in DOMAIN hkey : is_ascii_hexdigit(hkey[i]))
        THEN InvalidKey
        ELSE [ok |-> TRUE,
              path |-> push(push(base_path, SubSeq(hkey, 1, 2)), k),
              err |-> ""]

\* args.base_path.canonicalize(): an absolute path without a final separator
BasePath == <<"/", "n", "a", "s">>

\* ---------------------------------------------- path_from_key as a function
MaxTail == 2

Rep(c, n) == [i \in 1..n |-> c]
KeyAlphabet == {"0", "F", "g", "Z", ".", "/", "-", NonAscii}
Tails == UNION {[1..n -> KeyAlphabet] : n \in 0..MaxTail}

\* Keys around the grammar: a run of HashLen - 1, HashLen or HashLen + 1
\* hexadecimal characters with one character replaced, then a short tail.
KeyInputs ==
    {[Rep("a", n) EXCEPT ![i] = c] \o t :
        n \in (HashLen - 1)..(HashLen + 1), i \in {1, 2, HashLen - 1},
        c \in KeyAlphabet \cup {"a"}, t \in Tails}

KeyInit ==
    /\ SelIdle /\ StatsIdle /\ ReqIdle
    /\ key \in KeyInputs
    /\ resolved = None

ResolveKey ==
    /\ KeyOnly
    /\ resolved = None
    /\ resolved' = Some(path_from_key(BasePath, key))
    /\ key' = key

KeyNext == ResolveKey

SpecKey == KeyInit /\ [][KeyNext]_vars

\* The key grammar of the specification: <32 hex characters>, then
\* optionally a "." and an alphanumeric extension.
MatchesGrammar(k) ==
    /\ Len(k) >= HashLen
    /\ \A i \in 1..HashLen : k[i] \in Digits \cup LowerHex \cup UpperHex
    /\ \/ Len(k) = HashLen
       \/ /\ Len(k) >= HashLen + 2
          /\ k[HashLen + 1] = "."
          /\ \A i \in (HashLen + 2)..Len(k) : k[i] \in Digits \cup Lower \cup Upper

\* The components of a path, split at the separators.
RECURSIVE Components(_)
Components(s) ==
    IF s = <<>> THEN <<>>
    ELSE LET i == FirstIndex(s, "/")
         IN  IF i = 0 THEN <<s>>
             ELSE (IF i = 1 THEN <<>> ELSE <<SubSeq(s, 1, i - 1)>>)
                      \o Components(SubSeq(s, i + 1, Len(s)))

\* path is base, then the two-character directory, then the key as one file
\* name: nothing in it climbs out of base.
UnderBase(path, base, k) ==
    LET cs == Components(path)
        bs == Components(base)
    IN  /\ cs = bs \o <<SubSeq(k, 1, 2), k>>
        /\ \A i \in DOMAIN cs : cs[i] # <<".", ".">>

\* C6 as claimed: resolution succeeds exactly for the keys of the grammar
\* <32 hex characters>[.<alphanumeric extension>], the extension having at
\* least one character; the path then is <base>/<first 2 characters>/<key>,
\* under the base directory; every other key is rejected with InvalidKey.
C6_AsClaimed ==
    resolved # None
        => LET r == resolved[1]
           IN  /\ r.ok <=> MatchesGrammar(key)
               /\ r.ok => /\ r.path = BasePath \o <<"/">> \o SubSeq(key, 1, 2)
                                         \o <<"/">> \o key
                          /\ UnderBase(r.path, BasePath, key)
               /\ ~r.ok => r = InvalidKey

\* The grammar the code accepts: the extension may be empty.
MatchesLooseGrammar(k) ==
    /\ Len(k) >= HashLen
    /\ \A i \in 1..HashLen : k[i] \in Digits \cup LowerHex \cup UpperHex
    /\ \/ Len(k) = HashLen
       \/ /\ k[HashLen + 1] = "."
          /\ \A i \in (HashLen + 2)..Len(k) : k[i] \in Digits \cup Lower \cup Upper

\* C6 (amended): resolution succeeds exactly for the keys made of 32
\* hexadecimal characters, optionally followed by "." and zero or more ASCII
\* alphanumeric characters; the path then is <base>/<first 2 characters>/<key>,
\* under the base directory (the key holds no separator and no ".."
\* component); every other key is rejected with InvalidKey.
C6_KeyResolution ==
    resolved # None
        => LET r == resolved[1]
           IN  /\ r.ok <=> MatchesLooseGrammar(key)
               /\ r.ok => /\ r.path = BasePath \o <<"/">> \o SubSeq(key, 1, 2)
                                         \o <<"/">> \o key
                          /\ UnderBase(r.path, BasePath, key)
               /\ ~r.ok => r = InvalidKey

\* A key with an extension was resolved.
C6_Witness ==
    /\ resolved # None
    /\ resolved[1].ok
    /\ Len(key) = HashLen + 2
    /\ key[HashLen + 1] = "."
    /\ key[1] = "F"
    /\ resolved[1].path = BasePath \o <<"/", "F", "a", "/">> \o key

\* ------------------------------------------------ OnlineStats (statistics.rs)
\* An f64 is the exact rational <<numerator, denominator>> in lowest terms,
\* denominator > 0: the arithmetic below is that of the reals, without the
\* rounding of floating point.
RECURSIVE Gcd(_, _)
Gcd(a, b) == IF b = 0 THEN a ELSE Gcd(b, a % b)

Abs(x) == IF x < 0 THEN 0 - x ELSE x

Norm(n, d) ==
    LET g == Gcd(Abs(n), d)
    IN  <<n \div g, d \div g>>

Zero == <<0, 1>>
FromInt(v) == <<v, 1>>
RAdd(a, b) == Norm(a[1] * b[2] + b[1] * a[2], a[2] * b[2])
RSub(a, b) == Norm(a[1] * b[2] - b[1] * a[2], a[2] * b[2])
RMul(a, b) == Norm(a[1] * b[1], a[2] * b[2])
RDivInt(a, n) == Norm(a[1], a[2] * n)

\* OnlineStats::new(): Default::default()
new == [count |-> 0, mean |-> Zero, m2 |-> Zero]

UpdateFromOldMean(s, value) ==
    LET count == s.count + 1
        delta == RSub(value, s.mean)
        mean1 == RAdd(s.mean, RDivInt(delta, count))
    IN  [count |-> count, mean |-> mean1,
         m2 |-> RAdd(s.m2, RMul(delta, delta))]

\* pub fn update(&mut self, value: f64)
update(s, value) ==
    LET count == s.count + 1
        delta == RSub(value, s.mean)
        mean1 == RAdd(s.mean, RDivInt(delta, count))
        delta2 == RSub(value, mean1)
    IN  [count |-> count, mean |-> mean1,
         m2 |-> RAdd(s.m2, RMul(delta, delta2))]

\* pub fn mean(&self) -> f64
mean(s) == s.mean

\* pub fn variance(&self) -> f64
variance(s) ==
    IF s.count > 1 THEN RDivInt(s.m2, s.count - 1) ELSE Zero

\* pub fn stddev(&self) -> f64: the square root is left symbolic
stddev(s) == [sqrt |-> variance(s)]

MaxUpdates == 4
MaxValue == 2

StatsInit ==
    /\ SelIdle /\ KeyIdle /\ ReqIdle
    /\ stats = new
    /\ values = <<>>
    /\ read = None

Update ==
    /\ StatsOnly
    /\ Len(values) < MaxUpdates
    /\ \E v \in (0 - MaxValue)..MaxValue :
         /\ stats' = update(stats, FromInt(v))
         /\ values' = Append(values, v)
    /\ read' = None

ReadMean ==
    /\ StatsOnly
    /\ read' = Some([op |-> "mean", value |-> mean(stats)])
    /\ UNCHANGED <<stats, values>>

ReadVariance ==
    /\ StatsOnly
    /\ read' = Some([op |-> "variance", value |-> variance(stats)])
    /\ UNCHANGED <<stats, values>>

ReadStddev ==
    /\ StatsOnly
    /\ read' = Some([op |-> "stddev", value |-> stddev(stats)])
    /\ UNCHANGED <<stats, values>>

StatsNext ==
    \/ Update
    \/ ReadMean
    \/ ReadVariance
    \/ ReadStddev

SpecStats == StatsInit /\ [][StatsNext]_vars

\* The reference: two passes over the values.
RECURSIVE Sum(_)
Sum(vs) == IF vs = <<>> THEN 0 ELSE Head(vs) + Sum(Tail(vs))

RefMean(vs) == Norm(Sum(vs), Len(vs))

RECURSIVE SumSqDev(_, _)
SumSqDev(vs, m) ==
    IF vs = <<>> THEN Zero
    ELSE LET d == RSub(FromInt(Head(vs)), m)
         IN  RAdd(RMul(d, d), SumSqDev(Tail(vs), m))

RefVariance(vs) == RDivInt(SumSqDev(vs, RefMean(vs)), Len(vs) - 1)

C9_Accumulated ==
    LET n == Len(values)
    IN  /\ stats.count = n
        /\ n >= 1 => mean(stats) = RefMean(values)
        /\ n >= 2 => variance(stats) = RefVariance(values)
        /\ n <= 1 => variance(stats) = Zero
        /\ read # None /\ read[1].op = "mean" /\ n >= 1
             => read[1].value = RefMean(values)
        /\ read # None /\ read[1].op = "variance" /\ n >= 2
             => read[1].value = RefVariance(values)

C9_ReadsPure == read' # None => stats' = stats

\* C9: after n updates mean() is the arithmetic mean of the n values and
\* variance() is their unbiased sample variance as two passes compute it
\* (sum of squared deviations / (n - 1)), variance() is 0 for n <= 1, and
\* mean, variance and stddev leave the accumulator as it was.
C9_Welford == []C9_Accumulated /\ [][C9_ReadsPure]_vars

\* A variance read after three updates with a mean that is no integer.
C9_Witness ==
    /\ Len(values) >= 3
    /\ stats.mean[2] > 1
    /\ read # None
    /\ read[1].op = "variance"
    /\ read[1].value # Zero
    /\ read[1].value = RefVariance(values)

\* --------------------------------------------- request handlers (main.rs)
MaxTime == 2

UpperSeq == <<"A", "B", "C", "D", "E", "F", "G", "H", "I", "J", "K", "L", "M",
              "N", "O", "P", "Q", "R", "S", "T", "U", "V", "W", "X", "Y", "Z">>
LowerSeq == <<"a", "b", "c", "d", "e", "f", "g", "h", "i", "j", "k", "l", "m",
              "n", "o", "p", "q", "r", "s", "t", "u", "v", "w", "x", "y", "z">>

\* str::to_lowercase
to_lowercase(s) ==
    [i \in DOMAIN s |->
        IF s[i] \in Upper
        THEN LowerSeq[CHOOSE j \in DOMAIN UpperSeq : UpperSeq[j] = s[i]]
        ELSE s[i]]

\* The index of the last c in s, 0 when there is none.
LastIndex(s, c) ==
    IF \E i \in DOMAIN s : s[i] = c
    THEN CHOOSE i \in DOMAIN s : s[i] = c /\ \A j \in (i + 1)..Len(s) : s[j] # c
    ELSE 0

\* Path::extension, .and_then(OsStr::to_str).unwrap_or(""): what follows the
\* last "." of the file name, "" when the name has none or only starts with one.
extension(path) ==
    LET slash == LastIndex(path, "/")
        name == SubSeq(path, slash + 1, Len(path))
        dot == LastIndex(name, ".")
    IN  IF dot <= 1 THEN <<>> ELSE SubSeq(name, dot + 1, Len(name))

\* match ext.as_str() { "psd" => .., "mp4" | "webm" | "mov" => .., _ => .. }
Dispatch(path) ==
    LET ext == to_lowercase(extension(path))
    IN  IF ext = <<"p", "s", "d">> THEN "load_image_from_psd"
        ELSE IF ext \in {<<"m", "p", "4">>, <<"w", "e", "b", "m">>,
                         <<"m", "o", "v">>}
        THEN "load_image_from_movie_keyframe"
        ELSE "load_image_from_file"

\* httpdate::parse_http_date on the header's text
parse_http_date(header) ==
    IF header.kind = "date" THEN Some(header.time) ELSE None

NotModifiedWhenOlder(header, modified_time) ==
    IF header = None THEN FALSE
    ELSE IF header[1].kind = "not_text" THEN FALSE
    ELSE LET ims_time == parse_http_date(header[1])
         IN  IF ims_time = None THEN FALSE
             ELSE modified_time < ims_time[1]

\* fn is_not_modified(req: &HttpRequest, modified_time: SystemTime) -> bool
is_not_modified(header, modified_time) ==
    IF header = None THEN FALSE
    ELSE IF header[1].kind = "not_text" THEN FALSE
    ELSE LET ims_time == parse_http_date(header[1])
         IN  IF ims_time = None THEN FALSE
             ELSE modified_time <= ims_time[1]

\* ResponseError for ApiError: status_code
status_code(error) ==
    IF error \in {"NotFound", "InvalidKey"} THEN 404 ELSE 500

ErrorResponse(error) == [status |-> status_code(error), error |-> error]
\* A std::io::Error of std::fs::metadata, answered by actix-web with the
\* status of its kind (NotFound, PermissionDenied, any other).
IoErrorResponses == {[status |-> st, error |-> "Io"] : st \in {404, 403, 500}}
NotModified == [status |-> 304, error |-> ""]
OkResponse == [status |-> 200, error |-> ""]
\* The handler panicked: no response is built.
Panicked == [status |-> 0, error |-> "panic"]
Panic == [kind |-> "Panic", image |-> None, msg |-> "unwrap on Err"]

H32 == Rep("a", HashLen)
ReqKeys ==
    {H32 \o <<".", "m", "p", "4">>, H32 \o <<".", "M", "o", "V">>,
     H32 \o <<".", "p", "s", "d">>, H32 \o <<".", "p", "n", "g">>,
     H32, H32 \o <<".">>, Rep("a", HashLen - 1) \o <<".", "m", "p", "4">>,
     H32 \o <<".", "/", ".", ".">>}

Headers ==
    {None, Some([kind |-> "not_text", time |-> 0]),
     Some([kind |-> "unparsable", time |-> 0])}
        \cup {Some([kind |-> "date", time |-> t]) : t \in 0..MaxTime}

ReqInit ==
    /\ SelIdle /\ KeyIdle /\ StatsIdle
    /\ rpc = "key"
    /\ handler \in {"media", "thumbnail"}
    /\ req_key \in ReqKeys
    /\ if_modified_since \in Headers
    /\ file_mtime \in {None} \cup {Some(t) : t \in 0..MaxTime}
    /\ canonical_path = None
    /\ stages = <<>>
    /\ fs_reads = 0
    /\ lpackets = 0
    /\ img = Running
    /\ response = None

Respond(r) ==
    /\ response' = Some(r)
    /\ rpc' = "done"

\* let canonical_path = path_from_key(base_path.get_ref(), &path.into_inner())?;
HandleKey ==
    /\ ReqOnly
    /\ rpc = "key"
    /\ stages' = Append(stages, "key")
    /\ LET r == path_from_key(BasePath, req_key)
       IN  IF r.ok
           THEN /\ canonical_path' = Some(r.path)
                /\ rpc' = "metadata"
                /\ UNCHANGED response
           ELSE /\ Respond(ErrorResponse(r.err))
                /\ UNCHANGED canonical_path
    /\ UNCHANGED <<handler, req_key, if_modified_since, file_mtime, fs_reads,
                   lpackets, img>>

\* let modified_time = std::fs::metadata(&canonical_path)?.modified()..
HandleMetadata ==
    /\ ReqOnly
    /\ rpc = "metadata"
    /\ stages' = Append(stages, "metadata")
    /\ fs_reads' = fs_reads + 1
    /\ IF file_mtime = None
       THEN \E r \in IoErrorResponses : Respond(r)
       ELSE rpc' = "check" /\ UNCHANGED response
    /\ UNCHANGED <<handler, req_key, if_modified_since, file_mtime,
                   canonical_path, lpackets, img>>

\* if is_not_modified(&req, modified_time) { return Ok(NotModified) }
HandleCheck ==
    /\ ReqOnly
    /\ rpc = "check"
    /\ stages' = Append(stages, "ims")
    /\ IF is_not_modified(if_modified_since, file_mtime[1])
       THEN Respond(NotModified)
       ELSE rpc' = "decode" /\ UNCHANGED response
    /\ UNCHANGED <<handler, req_key, if_modified_since, file_mtime,
                   canonical_path, fs_reads, lpackets, img>>

\* load_image(path): load_image_from_psd and load_image_from_file run here,
\* load_image_from_movie_keyframe is entered.
HandleDecode ==
    /\ ReqOnly
    /\ rpc = "decode"
    /\ stages' = Append(stages, "decode")
    /\ LET branch == Dispatch(canonical_path[1])
       IN  IF branch = "load_image_from_movie_keyframe"
           THEN /\ rpc' = "movie_open"
                /\ UNCHANGED <<img, fs_reads>>
           ELSE /\ fs_reads' = fs_reads + 1
                /\ rpc' = "decoded"
                /\ \E outcome \in
                        IF branch = "load_image_from_psd"
                        THEN {"ok", "IoError", "Failed to parse PSD",
                              "DimensionError"}
                        ELSE {"ok", "IoError", "Decoding"} :
                      img' = IF outcome = "ok"
                             THEN Ok([id |-> 0, is_key |-> FALSE])
                             ELSE Err(outcome)
    /\ UNCHANGED <<handler, req_key, if_modified_since, file_mtime,
                   canonical_path, lpackets, response>>

\* main.rs load_image_from_movie_keyframe: format::input, best(Type::Video),
\* Context::from_parameters, decoder().video(), each mapped to ImageError
MovieOpen ==
    /\ ReqOnly
    /\ rpc = "movie_open"
    /\ fs_reads' = fs_reads + 1
    /\ \E outcome \in {"ok", "Failed to open video", "No video stream found",
                       "Failed to get codec context",
                       "Failed to get video decoder"} :
         IF outcome = "ok"
         THEN rpc' = "movie_scaler" /\ UNCHANGED img
         ELSE rpc' = "decoded" /\ img' = Err(outcome)
    /\ UNCHANGED <<handler, req_key, if_modified_since, file_mtime,
                   canonical_path, stages, lpackets, response>>

\* ScalingContext::get(..).unwrap()
MovieScaler ==
    /\ ReqOnly
    /\ rpc = "movie_scaler"
    /\ \E ok \in BOOLEAN :
         IF ok
         THEN rpc' = "movie_packets" /\ UNCHANGED <<img, response>>
         ELSE img' = Panic /\ Respond(Panicked)
    /\ UNCHANGED <<handler, req_key, if_modified_since, file_mtime,
                   canonical_path, stages, fs_reads, lpackets>>

\* One turn of for (stream, packet) in ictx.packets(): the first frame the
\* decoder gives is converted and returned; after the loop, "No frame extracted".
MoviePacket ==
    /\ ReqOnly
    /\ rpc = "movie_packets"
    /\ \/ /\ img' = Err("No frame extracted")
          /\ rpc' = "decoded"
          /\ UNCHANGED <<lpackets, response>>
       \/ /\ lpackets < MaxPackets
          /\ lpackets' = lpackets + 1
          /\ \E video \in BOOLEAN, frame \in BOOLEAN, is_key \in BOOLEAN,
                outcome \in {"ok", "scaler.run", "DimensionError"} :
               IF ~video \/ ~frame
               THEN UNCHANGED <<rpc, img, response>>
               ELSE IF outcome = "scaler.run"
               THEN img' = Panic /\ Respond(Panicked)
               ELSE /\ img' = IF outcome = "ok"
                              THEN Ok([id |-> lpackets + 1, is_key |-> is_key])
                              ELSE Err(outcome)
                    /\ rpc' = "decoded"
                    /\ UNCHANGED response
    /\ UNCHANGED <<handler, req_key, if_modified_since, file_mtime,
                   canonical_path, stages, fs_reads>>

\* load_image(path).map_err(ApiError::FailedToDecode) and the handler's "?"
HandleDecoded ==
    /\ ReqOnly
    /\ rpc = "decoded"
    /\ IF img.kind = "Ok"
       THEN /\ rpc' = IF handler = "thumbnail" THEN "resize" ELSE "encode"
            /\ UNCHANGED response
       ELSE Respond(ErrorResponse("FailedToDecode"))
    /\ UNCHANGED <<handler, req_key, if_modified_since, file_mtime,
                   canonical_path, stages, fs_reads, lpackets, img>>

\* thumbnail: let resized = img.thumbnail(w, h);
HandleResize ==
    /\ ReqOnly
    /\ rpc = "resize"
    /\ stages' = Append(stages, "resize")
    /\ rpc' = "encode"
    /\ UNCHANGED <<handler, req_key, if_modified_since, file_mtime,
                   canonical_path, fs_reads, lpackets, img, response>>

\* build_webp_response(img, &canonical_path, modified_time)
HandleEncode ==
    /\ ReqOnly
    /\ rpc = "encode"
    /\ stages' = Append(stages, "encode")
    /\ \E ok \in BOOLEAN :
         Respond(IF ok THEN OkResponse ELSE ErrorResponse("FailedToEncode"))
    /\ UNCHANGED <<handler, req_key, if_modified_since, file_mtime,
                   canonical_path, fs_reads, lpackets, img>>

ReqNext ==
    \/ HandleKey
    \/ HandleMetadata
    \/ HandleCheck
    \/ HandleDecode
    \/ MovieOpen
    \/ MovieScaler
    \/ MoviePacket
    \/ HandleDecoded
    \/ HandleResize
    \/ HandleEncode

SpecReq == ReqInit /\ [][ReqNext]_vars

\* ------------------------------------------- request handlers: properties
Range(q) == {q[i] : i \in DOMAIN q}

IsPrefix(a, b) == Len(a) <= Len(b) /\ a = SubSeq(b, 1, Len(a))

\* The stages of a handler, in the order the claim gives.
PipelineOrder(h) ==
    IF h = "thumbnail"
    THEN <<"key", "metadata", "ims", "decode", "resize", "encode">>
    ELSE <<"key", "metadata", "ims", "decode", "encode">>

\* The If-Modified-Since header parses and the source is not newer than it.
SourceNotNewer ==
    /\ if_modified_since # None
    /\ if_modified_since[1].kind = "date"
    /\ file_mtime # None
    /\ file_mtime[1] <= if_modified_since[1].time

\* C7: the stages run in the order key validation, metadata read,
\* If-Modified-Since check, decode, (resize,) encode, each entered only when
\* every earlier one passed: no file system access for a malformed key, and
\* when the source mtime is <= the parsed If-Modified-Since time the answer is
\* 304 Not Modified with neither decode nor encode entered.
C7_Pipeline ==
    /\ IsPrefix(stages, PipelineOrder(handler))
    /\ "metadata" \in Range(stages) => MatchesLooseGrammar(req_key)
    /\ ~MatchesLooseGrammar(req_key) => fs_reads = 0
    /\ "ims" \in Range(stages) => file_mtime # None
    /\ "decode" \in Range(stages) => ~SourceNotNewer
    /\ "resize" \in Range(stages) \/ "encode" \in Range(stages)
         => img.kind = "Ok"
    /\ "ims" \in Range(stages) /\ SourceNotNewer
         => /\ rpc = "done"
            /\ response = Some(NotModified)
            /\ stages = <<"key", "metadata", "ims">>
            /\ img = Running

\* A 304 for a source exactly as old as the header's time.
C7_Witness ==
    /\ rpc = "done"
    /\ response = Some(NotModified)
    /\ SourceNotNewer
    /\ file_mtime[1] = if_modified_since[1].time
    /\ stages = <<"key", "metadata", "ims">>

\* C5: an image returned for an mp4, webm or mov file is a frame flagged as a
\* keyframe that was scored (compute_frame_score) and chosen by score.
C5_VideoPathKeyframe ==
    (/\ canonical_path # None
     /\ Dispatch(canonical_path[1]) = "load_image_from_movie_keyframe"
     /\ img.kind = "Ok")
        => /\ img.image[1].is_key
           /\ \E k \in DOMAIN scored : scored[k].id = img.image[1].id

\* C8: every failure of load_image reaches the caller as
\* ApiError::FailedToDecode (HTTP 500), never as a panic.
C8_UniformDecodeFailure ==
    (rpc = "done" /\ img.kind \notin {"Ok", "Running"})
        => response = Some(ErrorResponse("FailedToDecode"))

====
